---- MODULE Spec2Model ----
(***************************************************************************)
(* Model of the two sentiment pipelines of this repository:                *)
(*   sentiment_analysis.py       (lexicon variant, main)                   *)
(*   sentiment_analysis_bert.py  (model variant, fetch_data_from_api,      *)
(*                                analyze_speeches_with_bert, main)        *)
(*                                                                         *)
(* Strings are sequences of one-symbol strings.  "." stands for the        *)
(* sentence delimiter U+3002, " " and "\n" are whitespace, ":" is the      *)
(* field separator of the dictionary file; every other symbol is an        *)
(* ordinary character.  Affiliation labels are modelled by their rank in   *)
(* code-point order (the order pandas sorts group keys by).  Floats are    *)
(* exact rationals <<numerator, denominator>>.                             *)
(***************************************************************************)
EXTENDS Integers, Sequences, FiniteSets, TLC

VARIABLES
    variant,            \* which script runs: "lexicon" or "bert"
    pc,                 \* position in main / fetch_data_from_api
    sentiment_dic,      \* lexicon variant: the loaded dictionary
    numberOfRecords,    \* the count the probe's response carries
    total_num,          \* the probe's numberOfRecords, later clamped
    next_input,         \* the operator's answer at the confirmation gate
    pages,              \* number of pages the loop will request
    i,                  \* loop index of `for i in range(pages)`
    requests,           \* page requests issued so far, in order
    progress,           \* pages reported complete on stdout so far
    sleeps,             \* number of time.sleep(1) calls made so far
    fetched,            \* the records the server has returned, in order
    all_speech_text,    \* lexicon variant: accumulated text
    all_records,        \* model variant: accumulated {'party','speech'}
    speeches_by_party,  \* model variant: the grouped corpus
    scored,             \* lexicon: (score, positive_words, negative_words)
    calls,              \* model variant: outcome of each classifier call
    analysis_results,   \* model variant: analyze_speeches_with_bert result
    report,             \* what the run printed as its result
    errors              \* the request-error messages the run printed

vars == <<variant, pc, sentiment_dic, numberOfRecords, total_num, next_input,
          pages, i, requests, progress, sleeps, fetched, all_speech_text,
          all_records, speeches_by_party, scored, calls, analysis_results,
          report, errors>>

----------------------------------------------------------------------------
(* Bounds of the model *)

MaxRecords == 2
MaxPerPage == 2
MaxLines == 2
MaxTokens == 4
WideN == 22
MaxSpeechLen == 6
MaxSpeeches == 3
ScoreDen == 120

----------------------------------------------------------------------------
(* Program constants *)

max_records_per_request == 100
LexiconCap == 30000
BertCap == 1000
bar_length == 20
TopKinds == 20
MinSentenceLen == 5
NoAffiliation == 2

KUTEN == "."
NL == "\n"

----------------------------------------------------------------------------
(* Python helpers *)

Min(a, b) == IF a < b THEN a ELSE b

Abs(x) == IF x < 0 THEN -x ELSE x

\* dict.get(key, default)
Get(d, key, default) == IF key \in DOMAIN d THEN d[key] ELSE default

IsSpace(c) == c \in {" ", NL}

\* str.strip()
RECURSIVE Strip(_)
Strip(s) ==
    IF s = <<>> THEN s
    ELSE IF IsSpace(Head(s)) THEN Strip(Tail(s))
    ELSE IF IsSpace(s[Len(s)]) THEN Strip(SubSeq(s, 1, Len(s) - 1))
    ELSE s

\* str.split(sep) for a one-symbol separator
RECURSIVE Split(_, _)
Split(s, sep) ==
    IF \E k \in 1..Len(s) : s[k] = sep
    THEN LET k == CHOOSE k \in 1..Len(s) :
                      s[k] = sep /\ \A j \in 1..(k - 1) : s[j] # sep
         IN  <<SubSeq(s, 1, k - 1)>> \o Split(SubSeq(s, k + 1, Len(s)), sep)
    ELSE <<s>>

\* Lower with the upper-case answer left as it is
Lower_Identity(s) == s

\* str.lower() on the answers the gate can receive
Lower(s) == IF s = "N" THEN "n" ELSE s

\* the sequences over S of length at most n
SeqsUpTo(S, n) == UNION {[1..k -> S] : k \in 0..n}

\* list(a_set): the elements of S in some order
RECURSIVE SetToSeq(_)
SetToSeq(S) ==
    IF S = {} THEN <<>>
    ELSE LET x == CHOOSE x \in S : TRUE IN <<x>> \o SetToSeq(S \ {x})

\* the subsets of S with exactly k elements
RECURSIVE KSubsets(_, _)
KSubsets(S, k) ==
    IF k = 0 THEN {{}}
    ELSE IF Cardinality(S) < k THEN {}
    ELSE LET x == CHOOSE x \in S : TRUE
         IN  KSubsets(S \ {x}, k) \cup {T \cup {x} : T \in KSubsets(S \ {x}, k - 1)}

Range(s) == {s[k] : k \in 1..Len(s)}

----------------------------------------------------------------------------
(* Rationals for Python floats *)

RECURSIVE GCD(_, _)
GCD(a, b) == IF b = 0 THEN a ELSE GCD(b, a % b)

RNorm(r) ==
    LET g == GCD(Abs(r[1]), r[2]) IN <<r[1] \div g, r[2] \div g>>

RAdd(a, b) == RNorm(<<a[1] * b[2] + b[1] * a[2], a[2] * b[2]>>)

RNeg(a) == <<-a[1], a[2]>>

RDivInt(a, n) == RNorm(<<a[1], a[2] * n>>)

RLess(a, b) == a[1] * b[2] < b[1] * a[2]

RZero == <<0, 1>>

----------------------------------------------------------------------------
(* Optional values (Python None) *)

None == [some |-> FALSE]

Some(v) == [some |-> TRUE, val |-> v]

----------------------------------------------------------------------------
(* Lexicon variant: load_sentiment_dictionary and analyze_sentiment *)

EmptyDict == [w \in {} |-> <<>>]

DictSet(dic, word, polarity) ==
    [w \in DOMAIN dic \cup {word} |-> IF w = word THEN polarity ELSE dic[w]]

\* one pass of `for line in f`
LoadLine(dic, line) ==
    LET parts == Split(Strip(line), ":")
    IN  IF Len(parts) >= 4 /\ parts[4] \in {<<"p">>, <<"n">>}
        THEN DictSet(dic, parts[1], parts[4])
        ELSE dic

RECURSIVE LoadLines(_, _)
LoadLines(dic, lines) ==
    IF lines = <<>> THEN dic
    ELSE LoadLines(LoadLine(dic, Head(lines)), Tail(lines))

\* a file is [exists, readable, lines]; the result is the dictionary or None
load_sentiment_dictionary(file) ==
    IF ~file.exists THEN None
    ELSE IF ~file.readable THEN None
    ELSE Some(LoadLines(EmptyDict, file.lines))

\* Tokenizer().tokenize(text): one token per symbol, each with a surface
Tokenize(text) == [k \in 1..Len(text) |-> [surface |-> <<text[k]>>]]

\* ScoreToken counting a word only the first time it is met
ScoreToken_Once(acc, token, dic) ==
    LET word == token.surface
    IN  IF word \in DOMAIN dic
        THEN IF dic[word] = <<"p">> /\ word \notin Range(acc.positive_words)
             THEN [score |-> acc.score + 1,
                   positive_words |-> Append(acc.positive_words, word),
                   negative_words |-> acc.negative_words]
             ELSE IF dic[word] = <<"n">> /\ word \notin Range(acc.negative_words)
             THEN [score |-> acc.score - 1,
                   positive_words |-> acc.positive_words,
                   negative_words |-> Append(acc.negative_words, word)]
             ELSE acc
        ELSE acc

\* one pass of `for token in tokens`
ScoreToken(acc, token, dic) ==
    LET word == token.surface
    IN  IF word \in DOMAIN dic
        THEN IF dic[word] = <<"p">>
             THEN [score |-> acc.score + 1,
                   positive_words |-> Append(acc.positive_words, word),
                   negative_words |-> acc.negative_words]
             ELSE IF dic[word] = <<"n">>
             THEN [score |-> acc.score - 1,
                   positive_words |-> acc.positive_words,
                   negative_words |-> Append(acc.negative_words, word)]
             ELSE acc
        ELSE acc

RECURSIVE ScoreTokens(_, _, _)
ScoreTokens(acc, tokens, dic) ==
    IF tokens = <<>> THEN acc
    ELSE ScoreTokens(ScoreToken(acc, Head(tokens), dic), Tail(tokens), dic)

analyze_sentiment(text, dic) ==
    ScoreTokens([score |-> 0, positive_words |-> <<>>, negative_words |-> <<>>],
                Tokenize(text), dic)

\* Shown without the set(): words[:20]
Shown_NoDedup(words) == {SubSeq(words, 1, Min(TopKinds, Len(words)))}

\* list(set(words))[:20]: the listings the report may print for `words`
Shown(words) ==
    LET kinds == Range(words)
    IN  {SetToSeq(S) : S \in KSubsets(kinds, Min(TopKinds, Cardinality(kinds)))}

Verdict(score) ==
    IF score > 0 THEN "positive" ELSE IF score < 0 THEN "negative" ELSE "neutral"

----------------------------------------------------------------------------
(* Model variant: grouping, analyze_speeches_with_bert, the bar *)

\* the distinct values of s[k].party, ascending
RECURSIVE SortedKeys(_)
SortedKeys(K) ==
    IF K = {} THEN <<>>
    ELSE LET m == CHOOSE m \in K : \A x \in K : m <= x
         IN  <<m>> \o SortedKeys(K \ {m})

SpeechesOf(records, party) ==
    LET sel == SelectSeq(records, LAMBDA r : r.party = party)
    IN  [k \in 1..Len(sel) |-> sel[k].speech]

\* df.dropna(subset=['speech']) raises KeyError when the frame has no
\* 'speech' column, which is the frame pd.DataFrame([]) builds.  Otherwise
\* it drops nothing: record.get('speech', '') of a response whose speech is
\* a string or absent is a string.
DropNaRaises(records) == records = <<>>

\* the distinct parties of `records` in the order they are first met
RECURSIVE FirstSeenKeys(_, _)
FirstSeenKeys(seen, records) ==
    IF records = <<>> THEN seen
    ELSE IF Head(records).party \in Range(seen)
    THEN FirstSeenKeys(seen, Tail(records))
    ELSE FirstSeenKeys(Append(seen, Head(records).party), Tail(records))

\* GroupBy with sort=False
GroupBy_FirstSeen(records) ==
    LET keys == FirstSeenKeys(<<>>, records)
    IN  [g \in 1..Len(keys) |->
            [party |-> keys[g], speeches |-> SpeechesOf(records, keys[g])]]

\* df.groupby('party')['speech'].apply(list): groups sorted by key
GroupBy(records) ==
    LET keys == SortedKeys({records[k].party : k \in 1..Len(records)})
    IN  [g \in 1..Len(keys) |->
            [party |-> keys[g], speeches |-> SpeechesOf(records, keys[g])]]

Sentences(speech) == Split(speech, KUTEN)

\* the negation of the `continue` test of the sentence loop
Qualifies(sentence) ==
    ~(Strip(sentence) = <<>> \/ Len(sentence) < MinSentenceLen)

\* the classifier calls a corpus leads to: <<group, speech, sentence>>
CallSites(sbp) ==
    {c \in UNION {UNION {{<<g, s, k>> :
                          k \in 1..Len(Sentences(sbp[g].speeches[s]))} :
                         s \in 1..Len(sbp[g].speeches)} :
                  g \in 1..Len(sbp)} :
        Qualifies(Sentences(sbp[c[1]].speeches[c[2]])[c[3]])}

\* result['score'] if result['label'] == 'POSITIVE' else -result['score']
SignedScore(result) ==
    IF result.label = "POSITIVE" THEN result.score ELSE RNeg(result.score)

\* SentenceLoop counting a sentence whose classification raised
RECURSIVE SentenceLoop_CountsFailures(_, _, _, _, _)
SentenceLoop_CountsFailures(acc, sentences, k, site, oracle) ==
    IF k > Len(sentences) THEN acc
    ELSE IF ~Qualifies(sentences[k])
    THEN SentenceLoop_CountsFailures(acc, sentences, k + 1, site, oracle)
    ELSE LET result == oracle[<<site[1], site[2], k>>]
         IN  SentenceLoop_CountsFailures(
                [speech_score |->
                    IF result.raises THEN acc.speech_score
                    ELSE RAdd(acc.speech_score, SignedScore(result)),
                 analyzed_sentence_count |-> acc.analyzed_sentence_count + 1],
                sentences, k + 1, site, oracle)

\* the sentence loop from sentence k on
RECURSIVE SentenceLoop(_, _, _, _, _)
SentenceLoop(acc, sentences, k, site, oracle) ==
    IF k > Len(sentences) THEN acc
    ELSE IF ~Qualifies(sentences[k])
    THEN SentenceLoop(acc, sentences, k + 1, site, oracle)
    ELSE LET result == oracle[<<site[1], site[2], k>>]
         IN  IF result.raises
             THEN SentenceLoop(acc, sentences, k + 1, site, oracle)
             ELSE SentenceLoop(
                    [speech_score |-> RAdd(acc.speech_score, SignedScore(result)),
                     analyzed_sentence_count |-> acc.analyzed_sentence_count + 1],
                    sentences, k + 1, site, oracle)

\* the speech loop of group g from speech s on
RECURSIVE SpeechLoop(_, _, _, _, _)
SpeechLoop(acc, speeches, s, g, oracle) ==
    IF s > Len(speeches) THEN acc
    ELSE LET r == SentenceLoop(
                    [speech_score |-> RZero, analyzed_sentence_count |-> 0],
                    Sentences(speeches[s]), 1, <<g, s>>, oracle)
         IN  IF r.analyzed_sentence_count > 0
             THEN SpeechLoop(
                    [total_score |->
                        RAdd(acc.total_score,
                             RDivInt(r.speech_score, r.analyzed_sentence_count)),
                     analyzed_speech_count |-> acc.analyzed_speech_count + 1],
                    speeches, s + 1, g, oracle)
             ELSE SpeechLoop(acc, speeches, s + 1, g, oracle)

\* the party loop from group g on
RECURSIVE PartyLoop(_, _, _, _)
PartyLoop(results, sbp, g, oracle) ==
    IF g > Len(sbp) THEN results
    ELSE LET r == SpeechLoop([total_score |-> RZero, analyzed_speech_count |-> 0],
                             sbp[g].speeches, 1, g, oracle)
         IN  IF r.analyzed_speech_count > 0
             THEN PartyLoop(
                    Append(results,
                           [party |-> sbp[g].party,
                            score |-> RDivInt(r.total_score, r.analyzed_speech_count),
                            speech_count |-> Len(sbp[g].speeches)]),
                    sbp, g + 1, oracle)
             ELSE PartyLoop(results, sbp, g + 1, oracle)

analyze_speeches_with_bert(sbp, oracle) == PartyLoop(<<>>, sbp, 1, oracle)

\* sorted(results, key=score, reverse=True): stable, descending
RECURSIVE InsertSorted(_, _)
InsertSorted(sorted, r) ==
    IF sorted = <<>> THEN <<r>>
    ELSE IF RLess(Head(sorted).score, r.score) THEN <<r>> \o sorted
    ELSE <<Head(sorted)>> \o InsertSorted(Tail(sorted), r)

RECURSIVE SortedResults(_)
SortedResults(results) ==
    IF results = <<>> THEN <<>>
    ELSE InsertSorted(SortedResults(SubSeq(results, 1, Len(results) - 1)),
                      results[Len(results)])

Repeat(c, n) == [k \in 1..n |-> c]

\* IntOfScaled rounding to the nearest integer instead of truncating
IntOfScaled_Rounds(x) == (2 * bar_length * x[1] + x[2]) \div (2 * x[2])

\* int(bar_length * x) for a rational x >= 0
IntOfScaled(x) == (bar_length * x[1]) \div x[2]

\* f"{s:<{width}}" and f"{s:>{width}}"
LeftJustify(s, width) ==
    IF Len(s) >= width THEN s ELSE s \o Repeat(" ", width - Len(s))

RightJustify(s, width) ==
    IF Len(s) >= width THEN s ELSE Repeat(" ", width - Len(s)) \o s

\* the bar of one result
Bar(score) ==
    IF RLess(RZero, score)
    THEN LET pos_bar == Repeat("#", IntOfScaled(score))
         IN  <<"[", " ">> \o Repeat(" ", bar_length) \o <<" ", "|", " ">>
                 \o LeftJustify(pos_bar, bar_length) \o <<" ", "]">>
    ELSE LET neg_bar == Repeat("#", IntOfScaled(<<Abs(score[1]), score[2]>>))
         IN  <<"[", " ">> \o RightJustify(neg_bar, bar_length) \o <<" ", "|", " ">>
                 \o Repeat(" ", bar_length) \o <<" ", "]">>

----------------------------------------------------------------------------
(* Inputs: what the operator, the dictionary file, the server and the
   classifier can hand to a run *)

EmptyRec == [k \in {} |-> <<>>]

DicLine(word, polarity) == <<word, ":", "r", ":", "v", ":", polarity>>

\* lines of a dictionary file: well-formed, neutral, too short, padded
LineSamples ==
    {DicLine("g", "p"), DicLine("b", "n"), DicLine("x", "e"), DicLine("g", "n"),
     <<"b", ":", "r", ":", "p">>,
     <<" ">> \o DicLine("x", "p") \o <<":", "z", NL>>}

DicFiles ==
    {[exists |-> TRUE, readable |-> TRUE, lines |-> ls] :
        ls \in SeqsUpTo(LineSamples, MaxLines)}

\* the dictionary file of the scenario: g positive, b negative
ScenarioFile ==
    [exists |-> TRUE, readable |-> TRUE,
     lines |-> <<DicLine("g", "p"), DicLine("b", "n")>>]

BrokenFiles ==
    {[exists |-> FALSE, readable |-> FALSE, lines |-> <<>>],
     [exists |-> TRUE, readable |-> FALSE, lines |-> <<>>]}

\* distinct one-symbol words for texts with more than TopKinds kinds
Kanji ==
    <<"k01", "k02", "k03", "k04", "k05", "k06", "k07", "k08", "k09", "k10",
      "k11", "k12", "k13", "k14", "k15", "k16", "k17", "k18", "k19", "k20",
      "k21", "k22", "k23", "k24", "k25", "k26", "k27", "k28", "k29", "k30">>

WideFile ==
    [exists |-> TRUE, readable |-> TRUE,
     lines |-> [k \in 1..WideN |-> DicLine(Kanji[k], "p")]]

\* the first m wide words, the first of them once more
WideTexts == {SubSeq(Kanji, 1, m) \o <<Kanji[1]>> : m \in (TopKinds - 1)..WideN}

SpeechSamples == {<<>>, <<"g", "g", "g", "g", "g">>}

Parties == {1, 3}

\* a speechRecord element: 'speech' and 'speakerGroup' are each optional;
\* the lexicon variant reads 'speech' only
ResponseRecords(v) ==
    IF v = "lexicon"
    THEN [speech : SpeechSamples] \cup {EmptyRec}
    ELSE [speakerGroup : Parties, speech : SpeechSamples]
            \cup [speakerGroup : Parties] \cup [speech : SpeechSamples]
            \cup {EmptyRec}

\* response_data.json() of a page request that succeeded
PageBodies(v) ==
    {EmptyRec} \cup
    {[speechRecord |-> recs] : recs \in SeqsUpTo(ResponseRecords(v), MaxPerPage)}

Cap(v) == IF v = "lexicon" THEN LexiconCap ELSE BertCap

\* the counts the probe may report
Totals(v) == {0, 1, 100, 101, 250, Cap(v), Cap(v) + 1}

ProbeBodies(v) == {EmptyRec} \cup {[numberOfRecords |-> t] : t \in Totals(v)}

Answers == {"n", "N", "y", ""}

Unset == "(unset)"

Confidences == {<<1, 2>>, <<39, 40>>}

\* what one classifier call does: raise, or return a label and a confidence
Outcomes ==
    {[raises |-> TRUE, label |-> "NONE", score |-> RZero]} \cup
    {[raises |-> FALSE, label |-> l, score |-> c] :
        l \in {"POSITIVE", "NEGATIVE"}, c \in Confidences}

\* the outcomes the full pipeline is run against
PipelineOutcomes ==
    {o \in Outcomes : o.raises \/ (o.label = "POSITIVE" /\ o.score = <<39, 40>>)}

----------------------------------------------------------------------------
(* Pagination arithmetic *)

\* if int(total_num) > cap: total_num = cap
Clamp(total, cap) == IF total > cap THEN cap ELSE total

\* Pages counting one page too many at exact multiples
Pages_OffByOne(total) == total \div max_records_per_request + 1

\* (int(total_num) + max_records_per_request - 1) // max_records_per_request
Pages(total) == (total + max_records_per_request - 1) \div max_records_per_request

\* 1 + (i * max_records_per_request)
StartRecord(k) == 1 + (k * max_records_per_request)

\* the `for record in records` body of each variant
RECURSIVE AppendText(_, _)
AppendText(text, records) ==
    IF records = <<>> THEN text
    ELSE AppendText(text \o Get(Head(records), "speech", <<>>) \o <<NL>>,
                    Tail(records))

AppendRecords(acc, records) ==
    acc \o [k \in 1..Len(records) |->
               [party |-> Get(records[k], "speakerGroup", NoAffiliation),
                speech |-> Get(records[k], "speech", <<>>)]]

----------------------------------------------------------------------------
(* The run: main of each variant, step by step *)

Init ==
    /\ variant \in {"lexicon", "bert"}
    /\ pc = IF variant = "lexicon" THEN "load_dic" ELSE "keyword"
    /\ sentiment_dic = None
    /\ numberOfRecords = 0
    /\ total_num = 0
    /\ next_input = Unset
    /\ pages = 0
    /\ i = 0
    /\ requests = <<>>
    /\ progress = 0
    /\ sleeps = 0
    /\ fetched = <<>>
    /\ all_speech_text = <<>>
    /\ all_records = <<>>
    /\ speeches_by_party = <<>>
    /\ scored = None
    /\ calls = EmptyRec
    /\ analysis_results = <<>>
    /\ report = None
    /\ errors = <<>>

\* lexicon main: load the dictionary, exit when it is None
LoadDictionary ==
    /\ pc = "load_dic"
    /\ \E file \in {ScenarioFile} \cup BrokenFiles :
          LET dic == load_sentiment_dictionary(file)
          IN  /\ sentiment_dic' = dic
              /\ pc' = IF dic = None THEN "exit_no_dic" ELSE "keyword"
    /\ UNCHANGED <<variant, numberOfRecords, total_num, next_input, pages, i,
                   requests, progress, sleeps, fetched, all_speech_text,
                   all_records, speeches_by_party, scored, calls,
                   analysis_results, report, errors>>

\* the keyword prompt: an empty keyword ends the run.  The speaker and date
\* prompts only fill params, which every request carries unchanged.
InputKeyword ==
    /\ pc = "keyword"
    /\ \E any_keyword \in {<<>>, <<"k">>} :
          pc' = IF any_keyword = <<>> THEN "exit_no_keyword" ELSE "probe"
    /\ UNCHANGED <<variant, sentiment_dic, numberOfRecords, total_num,
                   next_input, pages, i, requests, progress, sleeps, fetched,
                   all_speech_text, all_records, speeches_by_party, scored,
                   calls, analysis_results, report, errors>>

\* the count probe, and the zero-results exit that follows it
CountProbe ==
    /\ pc = "probe"
    /\ \/ /\ pc' = "exit_probe_failed"
          /\ errors' = Append(errors, "probe")
          /\ UNCHANGED <<numberOfRecords, total_num>>
       \/ \E body \in ProbeBodies(variant) :
             LET n == Get(body, "numberOfRecords", 0)
             IN  /\ numberOfRecords' = n
                 /\ total_num' = n
                 /\ pc' = IF n = 0 THEN "exit_zero" ELSE "confirm"
                 /\ UNCHANGED errors
    /\ UNCHANGED <<variant, sentiment_dic, next_input, pages, i, requests,
                   progress, sleeps, fetched, all_speech_text, all_records,
                   speeches_by_party, scored, calls, analysis_results, report>>

\* the confirmation gate, then the clamp and the page count
Confirm ==
    /\ pc = "confirm"
    /\ \E answer \in Answers :
          /\ next_input' = answer
          /\ IF Lower(answer) = "n"
             THEN /\ pc' = "exit_cancelled"
                  /\ UNCHANGED <<total_num, pages, i>>
             ELSE /\ total_num' = Clamp(total_num, Cap(variant))
                  /\ pages' = Pages(Clamp(total_num, Cap(variant)))
                  /\ i' = 0
                  /\ pc' = "fetch"
    /\ UNCHANGED <<variant, sentiment_dic, numberOfRecords, requests, progress,
                   sleeps, fetched, all_speech_text, all_records,
                   speeches_by_party, scored, calls, analysis_results, report, errors>>

\* top of a loop pass: requests.get with startRecord and maximumRecords
RequestPage ==
    /\ pc = "fetch"
    /\ i < pages
    /\ requests' = Append(requests,
                          [startRecord |-> StartRecord(i),
                           maximumRecords |-> max_records_per_request])
    /\ pc' = "response"
    /\ UNCHANGED <<variant, sentiment_dic, numberOfRecords, total_num,
                   next_input, pages, i, progress, sleeps, fetched,
                   all_speech_text, all_records, speeches_by_party, scored,
                   calls, analysis_results, report, errors>>

\* PageFailed printing the error and going on with the next page
PageFailed_Continues ==
    /\ pc = "response"
    /\ errors' = Append(errors, "page")
    /\ i' = i + 1
    /\ pc' = "fetch"
    /\ UNCHANGED <<variant, sentiment_dic, numberOfRecords, total_num,
                   next_input, pages, requests, progress, sleeps, fetched,
                   all_speech_text, all_records, speeches_by_party, scored,
                   calls, analysis_results, report>>

\* the try body raised (transport error, raise_for_status, a body that is
\* not JSON): the except branch prints the error and ends the run
PageFailed ==
    /\ pc = "response"
    /\ pc' = "exit_page_failed"
    /\ errors' = Append(errors, "page")
    /\ UNCHANGED <<variant, sentiment_dic, numberOfRecords, total_num,
                   next_input, pages, i, requests, progress, sleeps, fetched,
                   all_speech_text, all_records, speeches_by_party, scored,
                   calls, analysis_results, report>>

\* the request succeeded: accumulate its records and report progress
PageFetched ==
    /\ pc = "response"
    /\ \E body \in PageBodies(variant) :
          LET records == Get(body, "speechRecord", <<>>)
          IN  /\ Len(fetched) + Len(records) <= MaxRecords
              /\ fetched' = fetched \o records
              /\ IF variant = "lexicon"
                 THEN /\ all_speech_text' = AppendText(all_speech_text, records)
                      /\ UNCHANGED all_records
                 ELSE /\ all_records' = AppendRecords(all_records, records)
                      /\ UNCHANGED all_speech_text
    /\ progress' = i + 1
    /\ pc' = "sleep"
    /\ UNCHANGED <<variant, sentiment_dic, numberOfRecords, total_num,
                   next_input, pages, i, requests, sleeps, speeches_by_party,
                   scored, calls, analysis_results, report, errors>>

\* Sleep pausing between pages only, not after the last one
Sleep_SkipsLast ==
    /\ pc = "sleep"
    /\ sleeps' = IF i + 1 < pages THEN sleeps + 1 ELSE sleeps
    /\ i' = i + 1
    /\ pc' = "fetch"
    /\ UNCHANGED <<variant, sentiment_dic, numberOfRecords, total_num,
                   next_input, pages, requests, progress, fetched,
                   all_speech_text, all_records, speeches_by_party, scored,
                   calls, analysis_results, report, errors>>

\* time.sleep(1), the last statement of a loop pass
Sleep ==
    /\ pc = "sleep"
    /\ sleeps' = sleeps + 1
    /\ i' = i + 1
    /\ pc' = "fetch"
    /\ UNCHANGED <<variant, sentiment_dic, numberOfRecords, total_num,
                   next_input, pages, requests, progress, fetched,
                   all_speech_text, all_records, speeches_by_party, scored,
                   calls, analysis_results, report, errors>>

\* after the loop, lexicon: exit when no text was gathered
TextGathered ==
    /\ pc = "fetch"
    /\ variant = "lexicon"
    /\ i >= pages
    /\ pc' = IF all_speech_text = <<>> THEN "exit_no_text" ELSE "analyze"
    /\ UNCHANGED <<variant, sentiment_dic, numberOfRecords, total_num,
                   next_input, pages, i, requests, progress, sleeps, fetched,
                   all_speech_text, all_records, speeches_by_party, scored,
                   calls, analysis_results, report, errors>>

\* after the loop, model variant: DataFrame, dropna, groupby; the KeyError
\* of dropna is caught nowhere
GroupRecords ==
    /\ pc = "fetch"
    /\ variant = "bert"
    /\ i >= pages
    /\ IF DropNaRaises(all_records)
       THEN /\ pc' = "crashed"
            /\ UNCHANGED speeches_by_party
       ELSE /\ speeches_by_party' = GroupBy(all_records)
            /\ pc' = "load_model"
    /\ UNCHANGED <<variant, sentiment_dic, numberOfRecords, total_num,
                   next_input, pages, i, requests, progress, sleeps, fetched,
                   all_speech_text, all_records, scored, calls,
                   analysis_results, report, errors>>

\* pipeline("sentiment-analysis", ...): exit when it raises
LoadModel ==
    /\ pc = "load_model"
    /\ \E loaded \in BOOLEAN :
          pc' = IF loaded THEN "analyze" ELSE "exit_model_failed"
    /\ UNCHANGED <<variant, sentiment_dic, numberOfRecords, total_num,
                   next_input, pages, i, requests, progress, sleeps, fetched,
                   all_speech_text, all_records, speeches_by_party, scored,
                   calls, analysis_results, report, errors>>

\* lexicon: analyze_sentiment(all_speech_text, sentiment_dic)
AnalyzeLexicon ==
    /\ pc = "analyze"
    /\ variant = "lexicon"
    /\ scored' = Some(analyze_sentiment(all_speech_text, sentiment_dic.val))
    /\ pc' = "report"
    /\ UNCHANGED <<variant, sentiment_dic, numberOfRecords, total_num,
                   next_input, pages, i, requests, progress, sleeps, fetched,
                   all_speech_text, all_records, speeches_by_party, calls,
                   analysis_results, report, errors>>

\* lexicon: the result section of main
ReportLexicon ==
    /\ pc = "report"
    /\ variant = "lexicon"
    /\ \E pos \in Shown(scored.val.positive_words),
          neg \in Shown(scored.val.negative_words) :
          report' = Some([total_num |-> total_num,
                          score |-> scored.val.score,
                          verdict |-> Verdict(scored.val.score),
                          positive |-> pos,
                          negative |-> neg])
    /\ pc' = "finished"
    /\ UNCHANGED <<variant, sentiment_dic, numberOfRecords, total_num,
                   next_input, pages, i, requests, progress, sleeps, fetched,
                   all_speech_text, all_records, speeches_by_party, scored,
                   calls, analysis_results, errors>>

\* model variant: analyze_speeches_with_bert against the outcomes in
\* `outcomes`, then the exit of main when there are no results
Analyze(outcomes) ==
    /\ pc = "analyze"
    /\ variant = "bert"
    /\ \E oracle \in [CallSites(speeches_by_party) -> outcomes] :
          LET results == analyze_speeches_with_bert(speeches_by_party, oracle)
          IN  /\ calls' = oracle
              /\ analysis_results' = results
              /\ pc' = IF results = <<>> THEN "exit_no_results" ELSE "report"
    /\ UNCHANGED <<variant, sentiment_dic, numberOfRecords, total_num,
                   next_input, pages, i, requests, progress, sleeps, fetched,
                   all_speech_text, all_records, speeches_by_party, scored,
                   report, errors>>

AnalyzeBert == Analyze(PipelineOutcomes)

\* model variant: sort by score and print each result with its bar
ReportBert ==
    /\ pc = "report"
    /\ variant = "bert"
    /\ LET sorted_results == SortedResults(analysis_results)
       IN  report' = Some([k \in 1..Len(sorted_results) |->
                             [party |-> sorted_results[k].party,
                              speech_count |-> sorted_results[k].speech_count,
                              score |-> sorted_results[k].score,
                              bar |-> Bar(sorted_results[k].score)]])
    /\ pc' = "finished"
    /\ UNCHANGED <<variant, sentiment_dic, numberOfRecords, total_num,
                   next_input, pages, i, requests, progress, sleeps, fetched,
                   all_speech_text, all_records, speeches_by_party, scored,
                   calls, analysis_results, errors>>

Next ==
    \/ LoadDictionary
    \/ InputKeyword
    \/ CountProbe
    \/ Confirm
    \/ RequestPage
    \/ PageFailed
    \/ PageFetched
    \/ Sleep
    \/ TextGathered
    \/ GroupRecords
    \/ LoadModel
    \/ AnalyzeLexicon
    \/ ReportLexicon
    \/ AnalyzeBert
    \/ ReportBert

Spec == Init /\ [][Next]_vars

----------------------------------------------------------------------------
(* The scoring and reporting steps on their own, from the state a run is in
   once one page of records has been fetched *)

\* the state left by a confirmed run whose single page returned `raw`
FetchedOnePage(raw) ==
    /\ numberOfRecords = Len(raw)
    /\ total_num = Len(raw)
    /\ next_input = "y"
    /\ pages = 1
    /\ i = 1
    /\ requests = <<[startRecord |-> StartRecord(0),
                     maximumRecords |-> max_records_per_request]>>
    /\ progress = 1
    /\ sleeps = 1
    /\ fetched = raw

ScorerTexts ==
    (SeqsUpTo({"g", "b", "x"}, MaxTokens) \ {<<>>}) \cup WideTexts

\* lexicon variant at the call of analyze_sentiment
InitScorer ==
    /\ variant = "lexicon"
    /\ pc = "analyze"
    /\ \E file \in DicFiles \cup {WideFile} :
          sentiment_dic = load_sentiment_dictionary(file)
    /\ \E text \in ScorerTexts :
          /\ FetchedOnePage(<<[speech |-> text]>>)
          /\ all_speech_text = AppendText(<<>>, <<[speech |-> text]>>)
    /\ all_records = <<>>
    /\ speeches_by_party = <<>>
    /\ scored = None
    /\ calls = EmptyRec
    /\ analysis_results = <<>>
    /\ report = None
    /\ errors = <<>>

NextScorer ==
    \/ AnalyzeLexicon
    \/ ReportLexicon

SpecScorer == InitScorer /\ [][NextScorer]_vars

\* record lists for the classifier loop: one speech of any symbols, or up
\* to MaxSpeeches sample speeches of two parties
BertSpeechSamples ==
    {<<"g", "g", "g", "g", "g">>, <<"b", "b", KUTEN, "x">>,
     <<" ", " ", " ", " ", " ">>}

BertRecordLists ==
    {<<[speakerGroup |-> 1, speech |-> t]>> :
        t \in SeqsUpTo({"a", " ", KUTEN}, MaxSpeechLen)}
    \cup {<<[speakerGroup |-> 1,
             speech |-> <<"g", "g", "g", "g", "g", KUTEN,
                          "b", "b", "b", "b", "b">>]>>}
    \cup (SeqsUpTo([speakerGroup : Parties, speech : BertSpeechSamples],
                   MaxSpeeches) \ {<<>>})

\* model variant at the call of analyze_speeches_with_bert
InitBert ==
    /\ variant = "bert"
    /\ pc = "analyze"
    /\ sentiment_dic = None
    /\ \E raw \in BertRecordLists :
          /\ FetchedOnePage(raw)
          /\ all_records = AppendRecords(<<>>, raw)
          /\ speeches_by_party = GroupBy(AppendRecords(<<>>, raw))
    /\ all_speech_text = <<>>
    /\ scored = None
    /\ calls = EmptyRec
    /\ analysis_results = <<>>
    /\ report = None
    /\ errors = <<>>

AnalyzeAnyOutcome == Analyze(Outcomes)

NextBert ==
    \/ AnalyzeAnyOutcome
    \/ ReportBert

SpecBert == InitBert /\ [][NextBert]_vars

\* the scores k / ScoreDen of [-1, 1]
GridScores == {RNorm(<<k, ScoreDen>>) : k \in (-ScoreDen)..ScoreDen}

\* model variant at the report, with one result whose score is on the grid:
\* one speech of one sentence, classified with that confidence
InitBar ==
    /\ variant = "bert"
    /\ pc = "report"
    /\ sentiment_dic = None
    /\ LET raw == <<[speakerGroup |-> 1, speech |-> <<"g", "g", "g", "g", "g">>]>>
       IN  /\ FetchedOnePage(raw)
           /\ all_records = AppendRecords(<<>>, raw)
           /\ speeches_by_party = GroupBy(AppendRecords(<<>>, raw))
    /\ all_speech_text = <<>>
    /\ scored = None
    /\ \E x \in GridScores :
          LET outcome == [raises |-> FALSE,
                          label |-> IF x[1] > 0 THEN "POSITIVE" ELSE "NEGATIVE",
                          score |-> <<Abs(x[1]), x[2]>>]
              oracle == [c \in CallSites(speeches_by_party) |-> outcome]
          IN  /\ calls = oracle
              /\ analysis_results =
                    analyze_speeches_with_bert(speeches_by_party, oracle)
    /\ report = None
    /\ errors = <<>>

NextBar == ReportBert

SpecBar == InitBar /\ [][NextBar]_vars

----------------------------------------------------------------------------
(* Properties *)

\* the loop has run to its end
LoopDone ==
    pc \in {"analyze", "report", "finished", "load_model", "exit_no_text",
            "crashed", "exit_model_failed", "exit_no_results"}

\* the operator let the run pass the gate
Confirmed == next_input # Unset /\ next_input \notin {"n", "N"}

NoScoring == scored = None /\ calls = EmptyRec /\ analysis_results = <<>>

CeilDiv(a, b) == IF a % b = 0 THEN a \div b ELSE a \div b + 1

KeyOf(rec) ==
    IF "speakerGroup" \in DOMAIN rec THEN rec.speakerGroup ELSE NoAffiliation

TextOf(rec) == IF "speech" \in DOMAIN rec THEN rec.speech ELSE <<>>

NoDuplicates(s) == \A j, k \in 1..Len(s) : j # k => s[j] # s[k]

Count(s, c) == Cardinality({k \in 1..Len(s) : s[k] = c})

\* C1: a confirmed run with totalRecords > 0 plans, and on running its loop
\* to the end issues, exactly ceil(min(totalRecords, cap) / 100) page
\* requests; a total equal to the cap is not reduced, and a total in 1..100
\* gives one page.
C1_PagesAreCeilOfCappedTotal ==
    Confirmed =>
        LET cap == IF variant = "lexicon" THEN 30000 ELSE 1000
            effectiveTotal == Min(numberOfRecords, cap)
        IN  /\ numberOfRecords > 0
            /\ total_num = effectiveTotal
            /\ pages = CeilDiv(effectiveTotal, 100)
            /\ Len(requests) <= pages
            /\ LoopDone => Len(requests) = pages
            /\ numberOfRecords = cap => total_num = numberOfRecords
            /\ numberOfRecords \in 1..100 => pages = 1

C1_Witness ==
    /\ pc = "finished"
    /\ variant = "lexicon"
    /\ numberOfRecords = 30001
    /\ Len(requests) = 300

\* C2: the k-th page request carries startRecord 1 + (k-1)*100 and
\* maximumRecords 100; a request is issued only when every page fetched so
\* far has been followed by its pause; when the loop ends, the last page
\* included, the pauses number the pages fetched; 250 records give the
\* requests at 1, 101, 201.
C2_SequentialPagesEachPaused ==
    /\ \A k \in 1..Len(requests) :
          requests[k] = [startRecord |-> 1 + (k - 1) * 100, maximumRecords |-> 100]
    /\ pc = "response" => sleeps = progress /\ Len(requests) = progress + 1
    /\ pc = "sleep" => sleeps + 1 = progress /\ Len(requests) = progress
    /\ pc = "fetch" => sleeps = progress /\ Len(requests) = progress
    /\ LoopDone => sleeps = progress /\ progress = pages /\ Len(requests) = pages
    /\ (LoopDone /\ numberOfRecords = 250) =>
          /\ sleeps = 3
          /\ requests = <<[startRecord |-> 1, maximumRecords |-> 100],
                          [startRecord |-> 101, maximumRecords |-> 100],
                          [startRecord |-> 201, maximumRecords |-> 100]>>

C2_Witness ==
    /\ LoopDone
    /\ numberOfRecords = 250
    /\ Len(requests) = 3
    /\ sleeps = 3

\* C3: once the probe or a page request has failed, the run has stopped for
\* good: one failure, the failed request the last one issued (one request
\* beyond the pages fetched, so neither repeated nor followed), nothing
\* scored, nothing grouped, no report, earlier pages notwithstanding.
C3_FailureAbortsRun ==
    errors # <<>> =>
        /\ Len(errors) = 1
        /\ pc \in {"exit_probe_failed", "exit_page_failed"}
        /\ ~ENABLED Next
        /\ NoScoring
        /\ speeches_by_party = <<>>
        /\ report = None
        /\ errors = <<"probe">> => requests = <<>>
        /\ errors = <<"page">> =>
              /\ Len(requests) = progress + 1
              /\ requests[Len(requests)].startRecord = 1 + progress * 100

C3_Witness ==
    /\ errors = <<"page">>
    /\ progress >= 1
    /\ fetched # <<>>
    /\ pc = "exit_page_failed"

\* C4: a page request exists only after a probe that succeeded with a count
\* above 0 and an answer other than n or N; a count of 0 and an answer of n
\* or N each end the run with no page request, no scoring and no report.
C4_GateBeforePages ==
    /\ requests # <<>> =>
          /\ "probe" \notin Range(errors)
          /\ numberOfRecords > 0
          /\ Confirmed
    /\ pc \in {"confirm", "fetch", "response", "sleep"} => numberOfRecords > 0
    /\ pc \in {"fetch", "response", "sleep"} => Confirmed
    /\ next_input \in {"n", "N"} => pc = "exit_cancelled"
    /\ pc \in {"exit_zero", "exit_cancelled"} =>
          /\ requests = <<>>
          /\ NoScoring
          /\ report = None
          /\ ~ENABLED Next
    /\ pc = "exit_zero" => numberOfRecords = 0 /\ next_input = Unset

C4_Witness ==
    /\ pc = "exit_cancelled"
    /\ next_input = "N"
    /\ numberOfRecords = 250
    /\ requests = <<>>

\* the analysis of the model variant has run
AnalysisDone == pc \in {"report", "exit_no_results", "finished"}

InResults(party) ==
    \E r \in 1..Len(analysis_results) : analysis_results[r].party = party

InReport(party) ==
    report # None /\ \E r \in 1..Len(report.val) : report.val[r].party = party

\* group g has a segment of 5 or more symbols that was classified and
\* whose classification did not raise
HasClassifiedSegment(g) ==
    \E site \in DOMAIN calls :
        /\ site[1] = g
        /\ Len(Sentences(speeches_by_party[g].speeches[site[2]])[site[3]]) >= 5
        /\ ~calls[site].raises

\* C5: after the analysis a group is in the results exactly when one of
\* its segments of 5 or more symbols was classified without an exception;
\* the report lists exactly the groups of the results; an exception never
\* ends the analysis.
C5_GroupScoredIffSegmentClassified ==
    AnalysisDone =>
        /\ \A g \in 1..Len(speeches_by_party) :
              /\ InResults(speeches_by_party[g].party) <=> HasClassifiedSegment(g)
              /\ pc = "finished" =>
                    (InReport(speeches_by_party[g].party) <=> HasClassifiedSegment(g))
        /\ pc = "exit_no_results" <=>
              \A g \in 1..Len(speeches_by_party) : ~HasClassifiedSegment(g)

C5_Witness ==
    /\ pc = "finished"
    /\ \E g, h \in 1..Len(speeches_by_party) :
          /\ InReport(speeches_by_party[g].party)
          /\ \E site \in DOMAIN calls : site[1] = g /\ calls[site].raises
          /\ ~InReport(speeches_by_party[h].party)
          /\ \E site \in DOMAIN calls : site[1] = h /\ calls[site].raises

\* the model variant holds a grouped corpus
Grouped ==
    /\ variant = "bert"
    /\ pc \in {"load_model", "analyze", "report", "finished",
               "exit_model_failed", "exit_no_results"}

\* the texts of the fetched records of affiliation `key`, in fetch order
TextsUnder(key) ==
    LET sel == SelectSeq(fetched, LAMBDA r : KeyOf(r) = key)
    IN  [k \in 1..Len(sel) |-> TextOf(sel[k])]

FirstSeen(key) ==
    CHOOSE k \in 1..Len(fetched) :
        KeyOf(fetched[k]) = key /\ \A j \in 1..(k - 1) : KeyOf(fetched[j]) # key

\* one group per key, the default bucket for a missing affiliation, every
\* fetched text in exactly one group and in fetch order
GroupsPartitionFetched ==
    /\ \A g, h \in 1..Len(speeches_by_party) :
          g # h => speeches_by_party[g].party # speeches_by_party[h].party
    /\ \A k \in 1..Len(fetched) :
          \E g \in 1..Len(speeches_by_party) :
              /\ speeches_by_party[g].party = KeyOf(fetched[k])
              /\ "speakerGroup" \notin DOMAIN fetched[k] =>
                    speeches_by_party[g].party = 2
    /\ \A g \in 1..Len(speeches_by_party) :
          /\ speeches_by_party[g].speeches # <<>>
          /\ speeches_by_party[g].speeches = TextsUnder(speeches_by_party[g].party)

\* C6 as stated: ..., and the groups stand in the order in which their
\* affiliations were first met during fetching.
C6_GroupsInFirstSeenOrder ==
    Grouped =>
        /\ GroupsPartitionFetched
        /\ \A g, h \in 1..Len(speeches_by_party) :
              g < h => FirstSeen(speeches_by_party[g].party)
                          < FirstSeen(speeches_by_party[h].party)

\* C6, amended: the corpus has one group per distinct affiliation key, a
\* record without affiliation is in the default bucket, every fetched text
\* is in exactly one group in fetch order, and the groups stand in
\* ascending order of their keys.
C6_GroupsInKeyOrder ==
    Grouped =>
        /\ GroupsPartitionFetched
        /\ \A g, h \in 1..Len(speeches_by_party) :
              g < h => speeches_by_party[g].party < speeches_by_party[h].party

C6_Witness ==
    /\ Grouped
    /\ Len(fetched) = 2
    /\ "speakerGroup" \notin DOMAIN fetched[1]
    /\ KeyOf(fetched[2]) = 1
    /\ Len(speeches_by_party) = 2
    /\ speeches_by_party[1].party = 1
    /\ speeches_by_party[2].party = 2

\* occurrences, in the tokens of the text, of words the dictionary gives
\* polarity `polarity`
Occurrences(polarity) ==
    LET tokens == Tokenize(all_speech_text)
    IN  {k \in 1..Len(tokens) :
            /\ tokens[k].surface \in DOMAIN sentiment_dic.val
            /\ sentiment_dic.val[tokens[k].surface] = <<polarity>>}

\* the distinct words of polarity `polarity` the text holds
Kinds(polarity) ==
    {Tokenize(all_speech_text)[k].surface : k \in Occurrences(polarity)}

ScenarioDic == (<<"g">> :> <<"p">>) @@ (<<"b">> :> <<"n">>)

ScenarioText == <<"g", "b", "g", "x", NL>>

\* C7: the score is the number of occurrences of positive words minus the
\* number of occurrences of negative words, each occurrence counted, words
\* outside the dictionary ignored.
C7_ScoreIsPositiveMinusNegative ==
    scored # None =>
        /\ scored.val.score
              = Cardinality(Occurrences("p")) - Cardinality(Occurrences("n"))
        /\ Len(scored.val.positive_words) = Cardinality(Occurrences("p"))
        /\ Len(scored.val.negative_words) = Cardinality(Occurrences("n"))

C7_Witness ==
    /\ scored # None
    /\ all_speech_text = ScenarioText
    /\ sentiment_dic.val = ScenarioDic
    /\ scored.val.score = 1

\* C8 as stated: the positive and negative collections the scorer outputs
\* hold no token twice, and no token is in both.
C8_ScorerOutputsHaveNoDuplicates ==
    scored # None =>
        /\ NoDuplicates(scored.val.positive_words)
        /\ NoDuplicates(scored.val.negative_words)
        /\ Range(scored.val.positive_words)
              \cap Range(scored.val.negative_words) = {}

\* C8, amended: the positive and negative lists of the report hold no token
\* twice and share no token; each holds only words of its polarity that the
\* text holds, all of them when they are at most 20 kinds and 20 of them
\* otherwise.
C8_ReportedEvidenceHasNoDuplicates ==
    report # None =>
        /\ NoDuplicates(report.val.positive)
        /\ NoDuplicates(report.val.negative)
        /\ Range(report.val.positive) \cap Range(report.val.negative) = {}
        /\ Range(report.val.positive) \subseteq Kinds("p")
        /\ Range(report.val.negative) \subseteq Kinds("n")
        /\ Len(report.val.positive) = Min(20, Cardinality(Kinds("p")))
        /\ Len(report.val.negative) = Min(20, Cardinality(Kinds("n")))

C8_Witness ==
    /\ report # None
    /\ all_speech_text = ScenarioText
    /\ sentiment_dic.val = ScenarioDic
    /\ Len(scored.val.positive_words) = 2
    /\ report.val.positive = <<<<"g">>>>
    /\ report.val.negative = <<<<"b">>>>

\* the fetched pages hold no text: no record at all, or empty texts only
NoAggregableText == \A k \in 1..Len(fetched) : TextOf(fetched[k]) = <<>>

\* C9: a confirmed run whose pages yield no text ends cleanly after the
\* loop: nothing is scored, no report is printed, no exception escapes.
C9_NoTextEndsGracefully ==
    (Confirmed /\ LoopDone /\ NoAggregableText) =>
        /\ pc # "crashed"
        /\ NoScoring
        /\ report = None

\* a half of the bar: bar_length symbols
LeftHalf(bar) == SubSeq(bar, 3, 22)

RightHalf(bar) == SubSeq(bar, 26, 45)

BarFramed(bar) ==
    /\ Len(bar) = 47
    /\ SubSeq(bar, 1, 2) = <<"[", " ">>
    /\ SubSeq(bar, 23, 25) = <<" ", "|", " ">>
    /\ SubSeq(bar, 46, 47) = <<" ", "]">>

Blank(half) == \A k \in 1..Len(half) : half[k] = " "

\* floor(20 * |s|) and round(20 * |s|), ties to even as Python rounds
FloorFill(s) ==
    CHOOSE n \in 0..20 : n * s[2] <= 20 * Abs(s[1]) /\ 20 * Abs(s[1]) < (n + 1) * s[2]

RoundFill(s) ==
    CHOOSE n \in 0..20 :
        \/ 2 * Abs(20 * Abs(s[1]) - n * s[2]) < s[2]
        \/ 2 * Abs(20 * Abs(s[1]) - n * s[2]) = s[2] /\ n % 2 = 0

\* the bar has `fill` marks, next to the centre on the side of the score's
\* sign, and is blank elsewhere
BarShows(bar, s, fill) ==
    /\ BarFramed(bar)
    /\ s[1] > 0 =>
          /\ Blank(LeftHalf(bar))
          /\ RightHalf(bar) = [k \in 1..20 |-> IF k <= fill THEN "#" ELSE " "]
    /\ s[1] < 0 =>
          /\ Blank(RightHalf(bar))
          /\ LeftHalf(bar) = [k \in 1..20 |-> IF k > 20 - fill THEN "#" ELSE " "]
    /\ s[1] = 0 => Blank(LeftHalf(bar)) /\ Blank(RightHalf(bar))

InUnitRange(s) == Abs(s[1]) <= s[2]

\* C10 as stated: the bar of a score s in [-1, 1] has round(|s| * 20) marks.
C10_FillIsRounded ==
    report # None =>
        \A r \in 1..Len(report.val) :
            InUnitRange(report.val[r].score) =>
                BarShows(report.val[r].bar, report.val[r].score,
                         RoundFill(report.val[r].score))

\* C10, amended: the bar of a score s in [-1, 1] has floor(|s| * 20) marks,
\* in the left half for a negative s and in the right half for a positive s,
\* the other half blank, each half 20 symbols wide.
C10_FillIsTruncated ==
    report # None =>
        \A r \in 1..Len(report.val) :
            InUnitRange(report.val[r].score) =>
                BarShows(report.val[r].bar, report.val[r].score,
                         FloorFill(report.val[r].score))

C10_Witness ==
    /\ report # None
    /\ \E r \in 1..Len(report.val) :
          /\ RLess(<<39, 40>>, report.val[r].score)
          /\ RLess(report.val[r].score, <<1, 1>>)
          /\ Count(RightHalf(report.val[r].bar), "#") = 19

====
